---- MODULE Spec2Model ----
(***************************************************************************)
(* Conversation turn engine of the confidant client.                       *)
(*                                                                         *)
(*   src/lib/logStore.ts      useLogStore : the active view (turns) and    *)
(*                            appendTurn / finalizeTurn / updateTurn       *)
(*   src/unnamed/part_002     useAppStore (lib/state) : personas with      *)
(*                            their chatHistory and unreadCount,           *)
(*                            activePersonaId, selectPersona               *)
(*   src/unnamed/part_000     useLiveApi : connect / disconnect / onClose, *)
(*                            analyzeRapport, updatePersonaJournal         *)
(*   src/unnamed/part_001     SettingsModal : handleSave                   *)
(*   src/components/demo/streaming-console/StreamingConsole.tsx            *)
(*                            ChatScreen : handleSendText, handleBack, the *)
(*                            handlers of the live session's events        *)
(*                                                                         *)
(* A turn's text is the sequence of the chunks that were concatenated into *)
(* it; a turn's timestamp (new Date()) is not modelled.                    *)
(***************************************************************************)
EXTENDS Integers, Sequences, FiniteSets, TLC

VARIABLES
    personas,             \* useAppStore.personas : id -> [chatHistory, unreadCount,
                          \*                              rapport, journalData]
    activePersonaId,      \* useAppStore.activePersonaId (persisted)
    turns,                \* useLogStore.turns : the active view (not persisted)
    connected,            \* useLiveApi : connected
    isConnecting,         \* ChatScreen : isConnecting
    activeCallPersonaId,  \* useLiveApi : activeCallPersonaId.current
    clientStatus,         \* the streaming client's session
    saving,               \* SettingsModal : <<>>, or the handleSave in flight with its formData
    calls,                \* the analyzeRapport and updatePersonaJournal calls in flight
    send,                 \* ChatScreen : the handleSendText in flight
    sendState,            \* ChatScreen : sendState
    split,                \* a call of splitMessage, between the iterations of its loop
    playing,              \* useLiveApi : the audio streamer has frames to play
    replaced,             \* observer : the client's status when the pending connect() was called
    lastChange,           \* observer : the last operation that changed the store
    run                   \* observer : the current run of same-role non-final appends

vars == <<personas, activePersonaId, turns, connected, isConnecting,
          activeCallPersonaId, clientStatus, saving, calls, send, sendState,
          split, playing, replaced, lastChange, run>>

storeVars == <<personas, activePersonaId, turns>>
liveVars == <<connected, isConnecting, activeCallPersonaId, clientStatus>>
textVars == <<send, sendState>>

----------------------------------------------------------------------------
(* Bounds of the model *)

\* total number of turns held by all histories together
MaxTurns == 2
\* total number of chunks held by all histories together
MaxChunks == 3
\* total number of turns that carry a reaction
MaxReactions == 1
\* MaxChunks of the application-level specification
MaxAppChunks == 1
\* number of analysis calls in flight at one time
MaxPending == 1
\* chunks a live session delivers in all
MaxLiveChunks == 2
\* MaxTurns of the text exchanges
MaxTextTurns == 3

----------------------------------------------------------------------------
(* Values *)

Null == "null"
NoReaction == "undefined"
Omitted == "omitted"

\* ids of the predefined personas (name.toLowerCase()); two of the three
PersonaIds == {"max", "chloe"}
\* an id that resolves to no persona
UnknownId == "nobody"
AllIds == PersonaIds \cup {UnknownId}

Roles == {"user", "agent", "system"}
\* the text chunks, in the order in which a persona receives them : appendTurn
\* never inspects a chunk's content, so the k-th chunk handed to it for a
\* persona is the k-th token, which makes the order and the multiplicity of the
\* chunks in a turn's text visible
ChunkTokens == <<"a", "b", "c", "d", "e">>
Reactions == {"heart"}
\* the emojis a reaction can be; the operations are run with those of Reactions
Emojis == Reactions \cup {"laugh"}
\* the isFinal argument of appendTurn : true, false, or not passed
FinalArgs == {"true", "false", Omitted}

\* rapport : the scale ends at 1000, a form without rapport saves 400, and the
\* predefined personas start at 500 (Max) and 450 (Chloe)
MaxRapport == 1000
DefaultRapport == 400
InitialRapport == [p \in PersonaIds |-> IF p = "max" THEN 500 ELSE 450]
\* the scores a reply of the remote service may carry
ReturnedScores == {-50, 640, 1200}

\* journalData : the document and its metadata.lastUpdated
DefaultJournalData == [doc |-> "default", lastUpdated |-> "created"]
ReturnedJournal == [doc |-> "profile", lastUpdated |-> "reply"]
Now == "now"

\* what ai.models.generateContent gives back : the promise rejects, the text
\* does not parse, or it parses to JSON that carries the value or lacks it
Reply(kind, value) == [kind |-> kind, value |-> value]
FailureReplies ==
    {Reply("rejected", <<>>), Reply("unparseable", <<>>), Reply("json", <<>>)}
RapportReplies ==
    FailureReplies \cup {Reply("json", <<n>>) : n \in ReturnedScores}
JournalReplies == FailureReplies \cup {Reply("json", <<ReturnedJournal>>)}

\* no call of splitMessage is in progress
NoSplit == [pc |-> "idle", text |-> <<>>, remainingText |-> <<>>, bubbles |-> <<>>,
            cut |-> "none"]

\* no handleSendText is in flight
NoSend == [pc |-> "idle", pid |-> Null, userTurnIndex |-> -1, chunks |-> <<>>,
           mounted |-> TRUE]

----------------------------------------------------------------------------
(* ConversationTurn and Persona : pure helpers *)

Last(h) == h[Len(h)]

\* unreadCount is optional : <<>> is undefined, <<n>> is the number n
UnreadOrZero(persona) ==
    IF persona.unreadCount = <<>> THEN 0 ELSE persona.unreadCount[1]

RECURSIVE SumLen(_)
SumLen(h) == IF h = <<>> THEN 0 ELSE Len(h[1].text) + SumLen(Tail(h))

RECURSIVE CountReactions(_)
CountReactions(h) ==
    IF h = <<>> THEN 0
    ELSE (IF h[1].reaction # NoReaction THEN 1 ELSE 0) + CountReactions(Tail(h))

RECURSIVE TotalChunksOf(_, _)
TotalChunksOf(ps, ids) ==
    IF ids = {} THEN 0
    ELSE LET p == CHOOSE x \in ids : TRUE
         IN SumLen(ps[p].chatHistory) + TotalChunksOf(ps, ids \ {p})

RECURSIVE TotalReactionsOf(_, _)
TotalReactionsOf(ps, ids) ==
    IF ids = {} THEN 0
    ELSE LET p == CHOOSE x \in ids : TRUE
         IN CountReactions(ps[p].chatHistory) + TotalReactionsOf(ps, ids \ {p})

RECURSIVE TotalTurnsOf(_, _)
TotalTurnsOf(ps, ids) ==
    IF ids = {} THEN 0
    ELSE LET p == CHOOSE x \in ids : TRUE
         IN Len(ps[p].chatHistory) + TotalTurnsOf(ps, ids \ {p})

TotalTurns(ps) == TotalTurnsOf(ps, DOMAIN ps)
TotalChunks(ps) == TotalChunksOf(ps, DOMAIN ps)
TotalReactions(ps) == TotalReactionsOf(ps, DOMAIN ps)

\* the chunk that arrives next for personaId
NextChunk(ps, personaId) ==
    ChunkTokens[(IF personaId \in DOMAIN ps
                 THEN SumLen(ps[personaId].chatHistory) ELSE 0) + 1]

\* faulty variant of the extend branch : a sealed last turn is extended too
ExtendsLastSealed(h, role) ==
    /\ Len(h) > 0
    /\ Last(h).role = role

\* the condition of the extend branch of appendTurn
ExtendsLast(h, role) ==
    /\ Len(h) > 0
    /\ Last(h).role = role
    /\ ~Last(h).isFinal

\* faulty variant of updatedTurn : the chunk goes in front of the text
UpdatedTurnPrepends(last, textChunk, isFinal) ==
    [last EXCEPT !.text = <<textChunk>> \o last.text,
                 !.isFinal = IF isFinal # Omitted THEN isFinal = "true"
                             ELSE last.isFinal]

\* updatedTurn of appendTurn
UpdatedTurn(last, textChunk, isFinal) ==
    [last EXCEPT !.text = last.text \o <<textChunk>>,
                 !.isFinal = IF isFinal # Omitted THEN isFinal = "true"
                             ELSE last.isFinal]

\* faulty variant of newTurn : isFinal ?? true
NewTurnFinalByDefault(role, textChunk, isFinal) ==
    [role |-> role, text |-> <<textChunk>>, isFinal |-> (isFinal # "false"),
     reaction |-> NoReaction]

\* newTurn of appendTurn (isFinal ?? false)
NewTurn(role, textChunk, isFinal) ==
    [role |-> role, text |-> <<textChunk>>, isFinal |-> (isFinal = "true"),
     reaction |-> NoReaction]

\* newHistory of appendTurn
AppendedHistory(h, role, textChunk, isFinal) ==
    IF ExtendsLast(h, role)
    THEN [h EXCEPT ![Len(h)] = UpdatedTurn(Last(h), textChunk, isFinal)]
    ELSE Append(h, NewTurn(role, textChunk, isFinal))

UpdatePersonaChatHistory(ps, personaId, chatHistory) ==
    [p \in DOMAIN ps |->
        IF p = personaId THEN [ps[p] EXCEPT !.chatHistory = chatHistory]
        ELSE ps[p]]

\* faulty variant of incrementPersonaUnreadCount : the map forgets to
\* compare ids
IncrementEveryUnreadCount(ps, personaId) ==
    [p \in DOMAIN ps |->
        [ps[p] EXCEPT !.unreadCount = <<UnreadOrZero(ps[p]) + 1>>]]

IncrementPersonaUnreadCount(ps, personaId) ==
    [p \in DOMAIN ps |->
        IF p = personaId
        THEN [ps[p] EXCEPT !.unreadCount = <<UnreadOrZero(ps[p]) + 1>>]
        ELSE ps[p]]

\* faulty variant of clearPersonaUnreadCount : the map forgets to compare ids
ClearEveryUnreadCount(ps, personaId) ==
    [p \in DOMAIN ps |-> [ps[p] EXCEPT !.unreadCount = <<0>>]]

ClearPersonaUnreadCount(ps, personaId) ==
    [p \in DOMAIN ps |->
        IF p = personaId THEN [ps[p] EXCEPT !.unreadCount = <<0>>]
        ELSE ps[p]]

\* faulty variant of the unread test : any role but the user's counts
CountsAsUnreadNotUser(personaId, role, active) ==
    active # personaId /\ role # "user"

\* whether appendTurn counts the chunk as unread
CountsAsUnread(personaId, role, active) ==
    active # personaId /\ role = "agent"

\* appendTurn on a persona that exists : the store it leaves
AppendToPersona(ps, active, view, personaId, role, textChunk, isFinal) ==
    LET newHistory == AppendedHistory(ps[personaId].chatHistory, role,
                                      textChunk, isFinal)
        updated == UpdatePersonaChatHistory(ps, personaId, newHistory)
    IN [personas |-> IF CountsAsUnread(personaId, role, active)
                     THEN IncrementPersonaUnreadCount(updated, personaId)
                     ELSE updated,
        turns |-> IF active = personaId THEN newHistory ELSE view]

\* faulty variant of appendTurn : an unknown personaId starts a conversation
\* instead of returning
AppendTurnResultCreates(ps, active, view, personaId, role, textChunk, isFinal) ==
    IF personaId \notin DOMAIN ps
    THEN [personas |-> [p \in DOMAIN ps \cup {personaId} |->
                           IF p = personaId
                           THEN [chatHistory |-> <<NewTurn(role, textChunk, isFinal)>>,
                                 unreadCount |-> <<>>,
                                 rapport |-> DefaultRapport,
                                 journalData |-> DefaultJournalData]
                           ELSE ps[p]],
          turns |-> view]
    ELSE AppendToPersona(ps, active, view, personaId, role, textChunk, isFinal)

\* appendTurn : the store it leaves; it returns at once when getPersonaById
\* finds no persona
AppendTurnResult(ps, active, view, personaId, role, textChunk, isFinal) ==
    IF personaId \notin DOMAIN ps
    THEN [personas |-> ps, turns |-> view]
    ELSE AppendToPersona(ps, active, view, personaId, role, textChunk, isFinal)

\* faulty variant of the sealed position : the last turn that is still open,
\* wherever it stands
SealIndexAnyOpen(h) ==
    IF \E i \in 1..Len(h) : ~h[i].isFinal
    THEN CHOOSE i \in 1..Len(h) :
             ~h[i].isFinal /\ \A j \in (i + 1)..Len(h) : h[j].isFinal
    ELSE 0

\* the 1-based position of the turn finalizeTurn seals, 0 when it seals none
SealIndex(h) ==
    IF Len(h) > 0 /\ ~Last(h).isFinal THEN Len(h) ELSE 0

\* faulty variant of finalizedTurn : the turn is rebuilt without its reaction
FinalizedTurnRebuilt(last) ==
    [role |-> last.role, text |-> last.text, isFinal |-> TRUE,
     reaction |-> NoReaction]

\* finalizedTurn of finalizeTurn
FinalizedTurn(last) == [last EXCEPT !.isFinal = TRUE]

\* faulty variant of finalizeTurn : every open turn of the history is sealed
FinalizeTurnResultSealsAll(ps, active, view) ==
    LET h == IF active \in DOMAIN ps THEN ps[active].chatHistory ELSE <<>>
    IN IF active # Null /\ active \in DOMAIN ps /\ SealIndex(h) > 0
       THEN LET newHistory == [i \in 1..Len(h) |-> FinalizedTurn(h[i])]
            IN [personas |-> UpdatePersonaChatHistory(ps, active, newHistory),
                turns |-> newHistory]
       ELSE [personas |-> ps, turns |-> view]

\* finalizeTurn : the store it leaves
FinalizeTurnResult(ps, active, view) ==
    LET h == IF active \in DOMAIN ps THEN ps[active].chatHistory ELSE <<>>
        i == SealIndex(h)
    IN IF active # Null /\ active \in DOMAIN ps /\ i > 0
       THEN LET newHistory == [h EXCEPT ![i] = FinalizedTurn(h[i])]
            IN [personas |-> UpdatePersonaChatHistory(ps, active, newHistory),
                turns |-> newHistory]
       ELSE [personas |-> ps, turns |-> view]

\* faulty variant of newReaction : the reaction is set, never toggled off
NewReactionSets(currentReaction, reaction) == reaction

\* newReaction of updateTurnInHistory : the same reaction again toggles it off
NewReaction(currentReaction, reaction) ==
    IF reaction # NoReaction /\ currentReaction = reaction THEN NoReaction
    ELSE reaction

\* faulty variant of updateTurnInHistory : a negative index counts from the end,
\* as newHistory.at(turnIndex) would
UpdateTurnInHistoryFromEnd(ps, personaId, turnIndex, reaction) ==
    [p \in DOMAIN ps |->
        LET n == Len(ps[p].chatHistory)
            k == IF turnIndex < 0 THEN n + turnIndex + 1 ELSE turnIndex + 1
        IN IF p = personaId /\ k \in 1..n
           THEN [ps[p] EXCEPT !.chatHistory[k].reaction =
                     NewReaction(ps[p].chatHistory[k].reaction, reaction)]
           ELSE ps[p]]

\* turnIndex is 0-based, as in the code
UpdateTurnInHistory(ps, personaId, turnIndex, reaction) ==
    [p \in DOMAIN ps |->
        IF p = personaId /\ turnIndex + 1 \in 1..Len(ps[p].chatHistory)
        THEN [ps[p] EXCEPT !.chatHistory[turnIndex + 1].reaction =
                  NewReaction(ps[p].chatHistory[turnIndex + 1].reaction, reaction)]
        ELSE ps[p]]

\* updateTurn : the store it leaves
UpdateTurnResult(ps, active, view, turnIndex, reaction) ==
    IF active = Null THEN [personas |-> ps, turns |-> view]
    ELSE LET updated == UpdateTurnInHistory(ps, active, turnIndex, reaction)
         IN [personas |-> updated,
             turns |-> IF active \in DOMAIN updated
                       THEN updated[active].chatHistory ELSE view]

\* updatePersona : { ...p, ...updates }
UpdatePersona(ps, id, updates) ==
    [p \in DOMAIN ps |-> IF p = id THEN updates @@ ps[p] ELSE ps[p]]

\* ChatScreen is rendered for an active persona only; when it goes, its
\* sendState and isConnecting go with it and a handleSendText still running
\* holds the setter of a component that is no longer there
SendAfterUnmount(s) == IF s.pc = "idle" THEN s ELSE [s EXCEPT !.mounted = FALSE]

\* setSendState(value) as called by the handleSendText in flight
SetSendState(s, current, value) == IF s.mounted THEN value ELSE current

\* what selectPersona loads into the view : nextPersona?.chatHistory || []
HistoryOrEmpty(ps, id) ==
    IF id \in DOMAIN ps THEN ps[id].chatHistory ELSE <<>>

----------------------------------------------------------------------------
(* Observers *)

NoRun == [pid |-> Null, role |-> Null, base |-> 0, chunks |-> <<>>]

Op(name, pid, was) == [op |-> name, pid |-> pid, was |-> was]

\* an operation that leaves the store as it was is not recorded
Changed(op) == IF storeVars' = storeVars THEN lastChange ELSE op

\* the run of consecutive same-role appends with isFinal false or omitted
RunAfterAppend(personaId, role, textChunk, isFinal) ==
    IF personaId \notin DOMAIN personas \/ isFinal = "true" THEN NoRun
    ELSE IF run.pid = personaId /\ run.role = role
         THEN [run EXCEPT !.chunks = @ \o <<textChunk>>]
    ELSE LET h == personas[personaId].chatHistory
         IN IF Len(h) = 0 \/ Last(h).isFinal \/ Last(h).role # role
            THEN [pid |-> personaId, role |-> role, base |-> Len(h),
                  chunks |-> <<textChunk>>]
            ELSE NoRun

----------------------------------------------------------------------------
(* The state after construction *)

Constructed ==
    /\ personas = [p \in PersonaIds |->
                       [chatHistory |-> <<>>, unreadCount |-> <<>>,
                        rapport |-> InitialRapport[p],
                        journalData |-> DefaultJournalData]]
    /\ activePersonaId = Null
    /\ turns = <<>>
    /\ connected = FALSE
    /\ isConnecting = FALSE
    /\ activeCallPersonaId = Null
    /\ clientStatus = "idle"
    /\ saving = <<>>
    /\ calls = <<>>
    /\ send = NoSend
    /\ sendState = "idle"
    /\ playing = FALSE
    /\ replaced = "none"
    /\ lastChange = Op("init", Null, "none")
    /\ run = NoRun

Init == Constructed /\ split = NoSplit

----------------------------------------------------------------------------
(* useLogStore and useAppStore operations *)

AppendTurn(personaId, role, textChunk, isFinal) ==
    /\ personaId \in DOMAIN personas =>
           /\ TotalChunks(personas) < MaxChunks
           /\ \/ ExtendsLast(personas[personaId].chatHistory, role)
              \/ TotalTurns(personas) < MaxTurns
    /\ LET result == AppendTurnResult(personas, activePersonaId, turns,
                                      personaId, role, textChunk, isFinal)
       IN /\ personas' = result.personas
          /\ turns' = result.turns
    /\ UNCHANGED activePersonaId
    /\ lastChange' = Changed(Op("appendTurn", personaId, "none"))
    /\ run' = RunAfterAppend(personaId, role, textChunk, isFinal)
    /\ UNCHANGED <<split, playing, replaced>>
    /\ UNCHANGED <<liveVars, saving, calls, textVars>>

FinalizeTurn ==
    /\ LET result == FinalizeTurnResult(personas, activePersonaId, turns)
       IN /\ personas' = result.personas
          /\ turns' = result.turns
    /\ UNCHANGED activePersonaId
    /\ lastChange' = Changed(Op("finalizeTurn", activePersonaId, "sealed"))
    /\ run' = NoRun
    /\ UNCHANGED <<split, playing, replaced>>
    /\ UNCHANGED <<liveVars, saving, calls, textVars>>

UpdateTurn(turnIndex, reaction) ==
    /\ LET result == UpdateTurnResult(personas, activePersonaId, turns,
                                      turnIndex, reaction)
       IN /\ TotalReactions(result.personas) <= MaxReactions
          /\ personas' = result.personas
          /\ turns' = result.turns
    /\ UNCHANGED activePersonaId
    /\ lastChange' = Changed(Op("updateTurn", Null, "none"))
    /\ run' = NoRun
    /\ UNCHANGED <<split, playing, replaced>>
    /\ UNCHANGED <<liveVars, saving, calls, textVars>>

SelectPersona(id) ==
    /\ IF id # Null
       THEN LET cleared == ClearPersonaUnreadCount(personas, id)
            IN /\ personas' = cleared
               /\ turns' = HistoryOrEmpty(cleared, id)
       ELSE UNCHANGED <<personas, turns>>
    /\ activePersonaId' = id
    /\ lastChange' = Changed(Op("selectPersona", id,
                    IF id \in DOMAIN personas /\ UnreadOrZero(personas[id]) > 0
                    THEN "unread" ELSE "none"))
    /\ run' = NoRun
    /\ UNCHANGED <<split, playing, replaced>>
    /\ IF id = Null
       THEN /\ isConnecting' = FALSE
            /\ sendState' = "idle"
            /\ send' = SendAfterUnmount(send)
       ELSE UNCHANGED <<isConnecting, textVars>>
    /\ UNCHANGED <<connected, activeCallPersonaId, clientStatus, saving, calls>>

----------------------------------------------------------------------------
(* analyzeRapport and updatePersonaJournal *)

\* faulty variant of the clamp : Math.min(1000, ...) is left out
ClampRapportFromBelow(x) == IF x < 0 THEN 0 ELSE x

\* Math.max(0, Math.min(1000, x))
ClampRapport(x) ==
    IF x < 0 THEN 0 ELSE IF x > MaxRapport THEN MaxRapport ELSE x

\* analyzeRapport : whether the remote service is called
AnalysisStarts(ps, personaId, exchange) ==
    personaId \in DOMAIN ps /\ Len(exchange) > 0

\* newRapport of analyzeRapport : <<>> when the reply gives none
NewRapport(reply) ==
    IF reply.kind = "json" /\ reply.value # <<>>
    THEN <<ClampRapport(reply.value[1])>>
    ELSE <<>>

\* faulty variant of analyzeRapport's end : the catch block resets the rapport
PersonasAfterRapportResets(ps, personaId, reply) ==
    IF NewRapport(reply) # <<>>
    THEN UpdatePersona(ps, personaId, [rapport |-> NewRapport(reply)[1]])
    ELSE IF reply.kind = "json" THEN ps
    ELSE UpdatePersona(ps, personaId, [rapport |-> DefaultRapport])

\* analyzeRapport after the reply : the personas it leaves
PersonasAfterRapport(ps, personaId, reply) ==
    IF NewRapport(reply) # <<>>
    THEN UpdatePersona(ps, personaId, [rapport |-> NewRapport(reply)[1]])
    ELSE ps

\* updatePersonaJournal : whether the remote service is called (the transcript
\* of a non-empty list of turns is never blank : every line names its speaker)
JournalStarts(ps, personaId, turnsToProcess) ==
    personaId \in DOMAIN ps /\ Len(turnsToProcess) > 0

\* faulty variant of updatedJournalData : the stamp of the reply is kept
UpdatedJournalDataUnstamped(reply) ==
    IF reply.kind = "json" /\ reply.value # <<>>
    THEN <<reply.value[1]>>
    ELSE <<>>

\* updatedJournalData with its fresh metadata.lastUpdated : <<>> when the reply
\* gives no document with metadata
UpdatedJournalData(reply) ==
    IF reply.kind = "json" /\ reply.value # <<>>
    THEN <<[reply.value[1] EXCEPT !.lastUpdated = Now]>>
    ELSE <<>>

\* updatePersonaJournal after the reply : the personas it leaves
PersonasAfterJournal(ps, personaId, reply) ==
    IF UpdatedJournalData(reply) # <<>>
    THEN UpdatePersona(ps, personaId, [journalData |-> UpdatedJournalData(reply)[1]])
    ELSE ps

\* a call in flight : what was called, for whom, with which turns, and from where
Call(kind, pid, callTurns, origin) ==
    [kind |-> kind, pid |-> pid, turns |-> callTurns, origin |-> origin]

\* the calls in flight after analyzeRapport(personaId, exchange) is called
CallsAfterRapport(cs, ps, personaId, exchange, origin) ==
    IF AnalysisStarts(ps, personaId, exchange)
    THEN Append(cs, Call("rapport", personaId, exchange, origin))
    ELSE cs

\* the calls in flight after updatePersonaJournal(personaId, turnsToProcess)
CallsAfterJournal(cs, ps, personaId, turnsToProcess, origin) ==
    IF JournalStarts(ps, personaId, turnsToProcess)
    THEN Append(cs, Call("journal", personaId, turnsToProcess, origin))
    ELSE cs

RemoveAt(cs, k) == SubSeq(cs, 1, k - 1) \o SubSeq(cs, k + 1, Len(cs))

\* how a reply ended the call
ReplyName(reply) ==
    IF reply.kind = "json" /\ reply.value = <<>> THEN "incomplete" ELSE reply.kind

\* the reply to the generateContent of an analyzeRapport in flight; the
\* handleSendText that awaits it goes on
RapportReply(k, reply) ==
    /\ k \in 1..Len(calls)
    /\ calls[k].kind = "rapport"
    /\ personas' = PersonasAfterRapport(personas, calls[k].pid, reply)
    /\ calls' = RemoveAt(calls, k)
    /\ send' = IF send.pc = "analysing" /\ calls[k].origin = "text"
               THEN [send EXCEPT !.pc = "typing"]
               ELSE send
    /\ lastChange' = Op("rapportReply", calls[k].pid, ReplyName(reply))
    /\ run' = NoRun
    /\ UNCHANGED <<split, playing, replaced>>
    /\ UNCHANGED <<activePersonaId, turns, liveVars, saving, sendState>>

\* the reply to the generateContent of an updatePersonaJournal in flight
JournalReply(k, reply) ==
    /\ k \in 1..Len(calls)
    /\ calls[k].kind = "journal"
    /\ personas' = PersonasAfterJournal(personas, calls[k].pid, reply)
    /\ calls' = RemoveAt(calls, k)
    /\ lastChange' = Op("journalReply", calls[k].pid, ReplyName(reply))
    /\ run' = NoRun
    /\ UNCHANGED <<split, playing, replaced>>
    /\ UNCHANGED <<activePersonaId, turns, liveVars, saving, textVars>>

----------------------------------------------------------------------------
(* useLiveApi and the call controls of ChatScreen *)

\* faulty variant of connect() : the prior session is left as it is
StatusAfterClientDisconnectSkipped(status) == status

\* connect() : client.disconnect() ends the client's session
StatusAfterClientDisconnect(status) == "idle"

\* connect() : client.connect(config) opens a session; next to a session
\* that has not ended, the client holds two
StatusAfterClientConnect(status) ==
    IF status = "idle" THEN "connecting" ELSE "overlapping"

\* handleCallStart, with the connect() of the hook; the call button is rendered
\* for an active persona only
HandleCallStart ==
    /\ ~isConnecting /\ ~connected
    /\ activePersonaId \in DOMAIN personas
    /\ isConnecting' = TRUE
    /\ activeCallPersonaId' = activePersonaId
    /\ clientStatus' = StatusAfterClientConnect(StatusAfterClientDisconnect(clientStatus))
    /\ replaced' = clientStatus
    /\ run' = NoRun
    /\ UNCHANGED <<split, playing>>
    /\ UNCHANGED <<storeVars, connected, saving, calls, textVars, lastChange>>

\* faulty variant of onOpen : the open event leaves connected as it is
ConnectedAfterOpenKept(conn) == conn

\* onOpen : setConnected(true)
ConnectedAfterOpen(conn) == TRUE

\* the client's open event : onOpen, and the effect that resets isConnecting
OnOpen ==
    /\ clientStatus = "connecting"
    /\ clientStatus' = "open"
    /\ connected' = ConnectedAfterOpen(connected)
    /\ isConnecting' = FALSE
    /\ run' = NoRun
    /\ replaced' = "none"
    /\ UNCHANGED <<split, playing>>
    /\ UNCHANGED <<storeVars, activeCallPersonaId, saving, calls, textVars, lastChange>>

\* faulty variant of disconnect()'s last line : the owner is kept
OwnerAfterDisconnectKept(personaId) == personaId

\* disconnect() : activeCallPersonaId.current = null
OwnerAfterDisconnect(personaId) == Null

\* the view after disconnect() : emptied when the session has an owner
TurnsAfterDisconnect(personaId, currentTurns) ==
    IF personaId # Null /\ Len(currentTurns) > 0 THEN <<>> ELSE currentTurns

\* faulty variant of disconnect()'s dispatch : the owner's chatHistory is
\* journalled in place of the view
CallsAfterDisconnectFromHistory(cs, ps, personaId, currentTurns) ==
    IF personaId # Null /\ Len(currentTurns) > 0
    THEN CallsAfterJournal(cs, ps, personaId, HistoryOrEmpty(ps, personaId), "close")
    ELSE cs

\* the calls in flight after disconnect() : the journal of the view's turns
CallsAfterDisconnect(cs, ps, personaId, currentTurns) ==
    IF personaId # Null /\ Len(currentTurns) > 0
    THEN CallsAfterJournal(cs, ps, personaId, currentTurns, "close")
    ELSE cs

\* handleCallEnd -> disconnect(); the call screen is shown while connected or
\* connecting
Disconnect ==
    /\ connected \/ isConnecting
    /\ clientStatus' = "idle"
    /\ connected' = FALSE
    /\ calls' = CallsAfterDisconnect(calls, personas, activeCallPersonaId, turns)
    /\ Len(calls') <= MaxPending
    /\ turns' = TurnsAfterDisconnect(activeCallPersonaId, turns)
    /\ activeCallPersonaId' = OwnerAfterDisconnect(activeCallPersonaId)
    /\ UNCHANGED <<personas, activePersonaId>>
    /\ lastChange' = Changed(Op("disconnect", activeCallPersonaId, "none"))
    /\ run' = NoRun
    /\ replaced' = "none"
    /\ UNCHANGED <<split, playing>>
    /\ UNCHANGED <<isConnecting, saving, textVars>>

\* faulty variant of onClose's test : disconnect() runs on every close event
WasRealSessionAlways(conn) == TRUE

\* onClose : disconnect() runs only if it was a real session
WasRealSession(conn) == conn

\* the client's close event : onClose
OnClose ==
    /\ IF WasRealSession(connected)
       THEN /\ calls' = CallsAfterDisconnect(calls, personas,
                                             activeCallPersonaId, turns)
            /\ Len(calls') <= MaxPending
            /\ turns' = TurnsAfterDisconnect(activeCallPersonaId, turns)
            /\ activeCallPersonaId' = OwnerAfterDisconnect(activeCallPersonaId)
       ELSE UNCHANGED <<calls, turns, activeCallPersonaId>>
    /\ connected' = FALSE
    /\ clientStatus' = "idle"
    /\ UNCHANGED <<personas, activePersonaId>>
    /\ lastChange' = Changed(Op("close", activeCallPersonaId, "none"))
    /\ run' = NoRun
    /\ replaced' = "none"
    /\ UNCHANGED <<split, playing>>
    /\ UNCHANGED <<isConnecting, saving, textVars>>

\* the client's close event, delivered to the onClose that was bound while
\* connected was true and has not been bound anew since setConnected(false) :
\* it calls disconnect() once more
OnCloseSeeingConnected ==
    /\ ~connected
    /\ clientStatus = "idle"
    /\ calls' = CallsAfterDisconnect(calls, personas, activeCallPersonaId, turns)
    /\ Len(calls') <= MaxPending
    /\ turns' = TurnsAfterDisconnect(activeCallPersonaId, turns)
    /\ activeCallPersonaId' = OwnerAfterDisconnect(activeCallPersonaId)
    /\ connected' = FALSE
    /\ clientStatus' = "idle"
    /\ UNCHANGED <<personas, activePersonaId>>
    /\ lastChange' = Changed(Op("close", activeCallPersonaId, "none"))
    /\ run' = NoRun
    /\ replaced' = "none"
    /\ UNCHANGED <<split, playing>>
    /\ UNCHANGED <<isConnecting, saving, textVars>>

\* handleBack : selectPersona(null), then handleCallEnd when connected, and
\* otherwise the journal of the text conversation
HandleBack ==
    /\ activePersonaId \in DOMAIN personas
    /\ activePersonaId' = Null
    /\ IF connected
       THEN /\ clientStatus' = "idle"
            /\ connected' = FALSE
            /\ calls' = CallsAfterDisconnect(calls, personas,
                                             activeCallPersonaId, turns)
            /\ turns' = TurnsAfterDisconnect(activeCallPersonaId, turns)
            /\ activeCallPersonaId' = OwnerAfterDisconnect(activeCallPersonaId)
       ELSE /\ calls' = IF Len(turns) > 0
                        THEN CallsAfterJournal(calls, personas, activePersonaId,
                                               turns, "back")
                        ELSE calls
            /\ UNCHANGED <<turns, connected, activeCallPersonaId, clientStatus>>
    /\ Len(calls') <= MaxPending
    /\ UNCHANGED personas
    /\ lastChange' = Changed(Op("back", activePersonaId, "none"))
    /\ run' = NoRun
    /\ replaced' = "none"
    /\ UNCHANGED <<split, playing>>
    /\ isConnecting' = FALSE
    /\ sendState' = "idle"
    /\ send' = SendAfterUnmount(send)
    /\ UNCHANGED saving

\* the client's audio event : onAudio hands the frame to the audio streamer
OnAudio ==
    /\ clientStatus = "open"
    /\ playing' = TRUE
    /\ UNCHANGED <<storeVars, liveVars, textVars, saving, calls, split,
                   replaced, lastChange, run>>

\* the client's interrupted event : stopAudioStreamer
StopAudioStreamer ==
    /\ clientStatus = "open"
    /\ playing' = FALSE
    /\ UNCHANGED <<storeVars, liveVars, textVars, saving, calls, split,
                   replaced, lastChange, run>>

\* the handlers ChatScreen binds to the client's events for the active persona
HandleInputTranscription(isFinal) ==
    /\ clientStatus = "open"
    /\ activePersonaId \in DOMAIN personas
    /\ TotalChunks(personas) < MaxLiveChunks
    /\ AppendTurn(activePersonaId, "user",
                  NextChunk(personas, activePersonaId), isFinal)

HandleOutputTranscription(isFinal) ==
    /\ clientStatus = "open"
    /\ activePersonaId \in DOMAIN personas
    /\ TotalChunks(personas) < MaxLiveChunks
    /\ AppendTurn(activePersonaId, "agent",
                  NextChunk(personas, activePersonaId), isFinal)

HandleContent ==
    /\ clientStatus = "open"
    /\ activePersonaId \in DOMAIN personas
    /\ TotalChunks(personas) < MaxLiveChunks
    /\ AppendTurn(activePersonaId, "agent",
                  NextChunk(personas, activePersonaId), Omitted)

\* faulty variant of the backward scan : the test of isFinal is left out
LastUserTurnIndexOpenToo(view) ==
    IF \E i \in 1..Len(view) : view[i].role = "user"
    THEN CHOOSE i \in 1..Len(view) :
             /\ view[i].role = "user"
             /\ \A j \in (i + 1)..Len(view) : view[j].role # "user"
    ELSE 0

\* the position of the last final user turn of the view, 0 when there is none
LastUserTurnIndex(view) ==
    IF \E i \in 1..Len(view) : view[i].role = "user" /\ view[i].isFinal
    THEN CHOOSE i \in 1..Len(view) :
             /\ view[i].role = "user" /\ view[i].isFinal
             /\ \A j \in (i + 1)..Len(view) :
                    ~(view[j].role = "user" /\ view[j].isFinal)
    ELSE 0

\* exchange of handleTurnComplete : turns.slice(lastUserTurnIndex)
Exchange(view) ==
    IF LastUserTurnIndex(view) = 0 THEN <<>>
    ELSE SubSeq(view, LastUserTurnIndex(view), Len(view))

\* handleTurnComplete : finalizeTurn(), then the exchange of the view goes to
\* analyzeRapport, which is not awaited
HandleTurnComplete ==
    /\ clientStatus = "open"
    /\ activePersonaId \in DOMAIN personas
    /\ LET result == FinalizeTurnResult(personas, activePersonaId, turns)
       IN /\ personas' = result.personas
          /\ turns' = result.turns
          /\ calls' = IF LastUserTurnIndex(result.turns) # 0
                      THEN CallsAfterRapport(calls, result.personas, activePersonaId,
                                             Exchange(result.turns), "live")
                      ELSE calls
    /\ Len(calls') <= MaxPending
    /\ UNCHANGED activePersonaId
    /\ lastChange' = Op("turncomplete", activePersonaId, "none")
    /\ run' = NoRun
    /\ UNCHANGED <<split, playing, replaced>>
    /\ UNCHANGED <<liveVars, saving, textVars>>

----------------------------------------------------------------------------
(* SettingsModal *)

\* handleSave up to its first await : formData is the copy of the persona
\* ({ ...persona }) that the modal holds when Save is pressed
SaveBegin(id) ==
    /\ saving = <<>>
    /\ id \in DOMAIN personas
    /\ saving' = <<[id |-> id, formData |-> personas[id]]>>
    /\ run' = NoRun
    /\ UNCHANGED <<split, playing, replaced>>
    /\ UNCHANGED <<storeVars, liveVars, calls, textVars, lastChange>>

\* what the form did to relationshipToUser : left it, blanked it, or edited it
Relationships == {"same", "blank", "edited"}

\* newRapport of handleSave : formData.rapport || 400, recomputed from the
\* reply of the service when the relationship was edited
SavedRapport(formData, relationship, reply) ==
    LET base == IF formData.rapport = 0 THEN DefaultRapport ELSE formData.rapport
    IN CASE relationship = "same" -> base
         [] relationship = "blank" -> DefaultRapport
         [] OTHER -> IF reply.kind # "json" THEN DefaultRapport
                     ELSE IF reply.value = <<>> THEN base
                     ELSE ClampRapport(reply.value[1])

\* handleSave after its awaits : updatePersona(selectedId, dataToSave), where
\* dataToSave = { ...formData, avatar, rapport, sharedMemory }
SaveFinish(relationship, reply) ==
    /\ saving # <<>>
    /\ personas' = UpdatePersona(personas, saving[1].id,
                       [saving[1].formData EXCEPT
                          !.rapport = SavedRapport(saving[1].formData,
                                                   relationship, reply)])
    /\ saving' = <<>>
    /\ UNCHANGED <<activePersonaId, turns>>
    /\ lastChange' = Changed(Op("saveFinish", saving[1].id, relationship))
    /\ run' = NoRun
    /\ UNCHANGED <<split, playing, replaced>>
    /\ UNCHANGED <<liveVars, calls, textVars>>

----------------------------------------------------------------------------
(* handleSendText : one text exchange, step by step between its awaits *)

\* the reply of the persona as a whole, before splitMessage
AgentText == <<"reply">>

\* the two turns handleSendText builds for analyzeRapport
TurnForAnalysis(role, text) ==
    [role |-> role, text |-> text, isFinal |-> TRUE, reaction |-> NoReaction]

\* up to the await of generateContent
HandleSendText ==
    /\ send.pc = "idle"
    /\ sendState = "idle"
    /\ activePersonaId \in DOMAIN personas
    /\ TotalChunks(personas) < MaxChunks
    /\ \/ ExtendsLast(personas[activePersonaId].chatHistory, "user")
       \/ TotalTurns(personas) < MaxTextTurns
    /\ LET result == AppendTurnResult(personas, activePersonaId, turns,
                                      activePersonaId, "user",
                                      NextChunk(personas, activePersonaId), "true")
       IN /\ personas' = result.personas
          /\ turns' = result.turns
          /\ send' = [pc |-> "generating", pid |-> activePersonaId,
                      userTurnIndex |-> Len(result.turns) - 1,
                      chunks |-> <<>>, mounted |-> TRUE]
    /\ sendState' = "thinking"
    /\ UNCHANGED activePersonaId
    /\ lastChange' = Op("sendText", activePersonaId, "none")
    /\ run' = NoRun
    /\ UNCHANGED <<split, playing, replaced>>
    /\ UNCHANGED <<liveVars, saving, calls>>

\* the finally block of handleSendText : setSendState('idle') if the persona
\* the message was sent to is the active one
SendStateAfterFinally(s, current, active) ==
    IF active = s.pid THEN SetSendState(s, current, "idle") ELSE current

\* generateContent rejects : the catch block appends the apology, the finally
\* block releases the input
GenerateFails ==
    /\ send.pc = "generating"
    /\ TotalChunks(personas) < MaxChunks
    /\ \/ ExtendsLast(HistoryOrEmpty(personas, send.pid), "system")
       \/ TotalTurns(personas) < MaxTextTurns
    /\ LET result == AppendTurnResult(personas, activePersonaId, turns,
                                      send.pid, "system",
                                      NextChunk(personas, send.pid), "true")
       IN /\ personas' = result.personas
          /\ turns' = result.turns
    /\ sendState' = SendStateAfterFinally(send, sendState, activePersonaId)
    /\ send' = NoSend
    /\ UNCHANGED activePersonaId
    /\ lastChange' = Op("generateFails", send.pid, "none")
    /\ run' = NoRun
    /\ UNCHANGED <<split, playing, replaced>>
    /\ UNCHANGED <<liveVars, saving, calls>>

\* chunks of handleSendText : the n fragments of the reply, named after their
\* places in the history of the persona they are for
ChunksOfReply(ps, personaId, n) ==
    [i \in 1..n |-> ChunkTokens[SumLen(HistoryOrEmpty(ps, personaId)) + i]]

\* generateContent resolves with a reply of n chunks and maybe a reaction :
\* handleReaction, then analyzeRapport, which handleSendText awaits
GenerateReplies(n, reaction) ==
    /\ send.pc = "generating"
    /\ TotalChunks(personas) + n <= MaxChunks
    /\ LET reacted == IF reaction # NoReaction /\ send.userTurnIndex # -1
                      THEN UpdateTurnResult(personas, activePersonaId, turns,
                                            send.userTurnIndex, reaction)
                      ELSE [personas |-> personas, turns |-> turns]
           history == HistoryOrEmpty(personas, send.pid)
           userText == IF history # <<>> THEN Last(history).text ELSE <<>>
           exchange == <<TurnForAnalysis("user", userText),
                         TurnForAnalysis("agent", AgentText)>>
       IN /\ TotalReactions(reacted.personas) <= MaxReactions
          /\ personas' = reacted.personas
          /\ turns' = reacted.turns
          /\ calls' = CallsAfterRapport(calls, reacted.personas, send.pid,
                                        exchange, "text")
          /\ Len(calls') <= MaxPending
          /\ send' = [send EXCEPT !.pc = IF calls' # calls THEN "analysing"
                                         ELSE "typing",
                                  !.chunks = ChunksOfReply(personas, send.pid, n)]
    /\ UNCHANGED <<activePersonaId, sendState>>
    /\ lastChange' = Op("generateReplies", send.pid, reaction)
    /\ run' = NoRun
    /\ UNCHANGED <<split, playing, replaced>>
    /\ UNCHANGED <<liveVars, saving>>

\* faulty variant of the loop's chunk : the fragments are taken from the end
NextFragmentFromEnd(chunks) == chunks[Len(chunks)]

\* chunk of the loop of handleSendText : chunks[i], the first one not yet
\* appended
NextFragment(chunks) == Head(chunks)

\* appendTurn(currentPersonaId, 'agent', chunk, true) and what follows it in
\* the loop, and after the last chunk the finally block
TypeAppend ==
    /\ TotalChunks(personas) < MaxChunks
    /\ \/ ExtendsLast(HistoryOrEmpty(personas, send.pid), "agent")
       \/ TotalTurns(personas) < MaxTextTurns
    /\ LET result == AppendTurnResult(personas, activePersonaId, turns,
                                      send.pid, "agent",
                                      NextFragment(send.chunks), "true")
       IN /\ personas' = result.personas
          /\ turns' = result.turns
    /\ sendState' = IF Len(send.chunks) > 1
                    THEN IF activePersonaId = send.pid
                         THEN SetSendState(send, sendState, "thinking")
                         ELSE sendState
                    ELSE SendStateAfterFinally(send, sendState, activePersonaId)
    /\ send' = IF Len(send.chunks) > 1
               THEN [send EXCEPT !.pc = "typing", !.chunks = Tail(send.chunks)]
               ELSE NoSend
    /\ UNCHANGED activePersonaId
    /\ lastChange' = Op("typeChunk", send.pid, "none")
    /\ run' = NoRun
    /\ UNCHANGED <<split, playing, replaced>>
    /\ UNCHANGED <<liveVars, saving, calls>>

\* the typing delay is over : with the persona on screen the input is released
\* for 50 ms before the chunk is appended, otherwise the chunk is appended
TypeDelay ==
    /\ send.pc = "typing"
    /\ IF activePersonaId = send.pid
       THEN /\ sendState' = SetSendState(send, sendState, "idle")
            /\ send' = [send EXCEPT !.pc = "pausing"]
            /\ run' = NoRun
            /\ UNCHANGED <<split, playing, replaced>>
            /\ UNCHANGED <<storeVars, liveVars, saving, calls, lastChange>>
       ELSE TypeAppend

\* the 50 ms are over
TypePause ==
    /\ send.pc = "pausing"
    /\ TypeAppend

----------------------------------------------------------------------------
(* SettingsModal : handleDelete, once the user has confirmed *)

\* faulty variant of deletePersona : activePersonaId is left as it is
ActiveAfterDeleteKept(active, id) == active

\* newActivePersonaId of deletePersona
ActiveAfterDelete(active, id) == IF active = id THEN Null ELSE active

\* newPersonas of deletePersona : personas.filter(p => p.id !== id)
PersonasAfterDelete(ps, id) == [p \in DOMAIN ps \ {id} |-> ps[p]]

\* deletePersona(id); ChatScreen goes when the active persona is deleted
DeletePersona(id) ==
    /\ id \in DOMAIN personas
    /\ personas' = PersonasAfterDelete(personas, id)
    /\ activePersonaId' = ActiveAfterDelete(activePersonaId, id)
    /\ turns' = IF activePersonaId = id THEN <<>> ELSE turns
    /\ IF activePersonaId = id
       THEN /\ isConnecting' = FALSE
            /\ sendState' = "idle"
            /\ send' = SendAfterUnmount(send)
       ELSE UNCHANGED <<isConnecting, textVars>>
    /\ lastChange' = Op("deletePersona", id, "none")
    /\ run' = NoRun
    /\ UNCHANGED <<split, playing, replaced>>
    /\ UNCHANGED <<connected, activeCallPersonaId, clientStatus, saving, calls>>

----------------------------------------------------------------------------
(* Page reload : personas and activePersonaId come back from the persisted *)
(* storage, everything else starts again                                   *)

Reload ==
    /\ turns' = <<>>
    /\ connected' = FALSE
    /\ isConnecting' = FALSE
    /\ activeCallPersonaId' = Null
    /\ clientStatus' = "idle"
    /\ saving' = <<>>
    /\ calls' = <<>>
    /\ send' = NoSend
    /\ sendState' = "idle"
    /\ UNCHANGED <<personas, activePersonaId>>
    /\ lastChange' = Changed(Op("reload", Null, "none"))
    /\ run' = NoRun
    /\ playing' = FALSE
    /\ replaced' = "none"
    /\ UNCHANGED split

----------------------------------------------------------------------------
(* The store engine on its own *)

Indices == -1..MaxTurns

Next ==
    \/ \E p \in AllIds, r \in Roles, f \in FinalArgs :
           AppendTurn(p, r, NextChunk(personas, p), f)
    \/ FinalizeTurn
    \/ \E i \in Indices, e \in Reactions : UpdateTurn(i, e)
    \/ \E id \in PersonaIds \cup {Null} : SelectPersona(id)

Spec == Init /\ [][Next]_vars

----------------------------------------------------------------------------
(* The engine with the live session, the settings form and page reloads *)

NextApp ==
    \/ /\ TotalChunks(personas) < MaxAppChunks
       /\ \E p \in AllIds, r \in Roles, f \in FinalArgs :
              AppendTurn(p, r, NextChunk(personas, p), f)
    \/ FinalizeTurn
    \/ \E id \in PersonaIds \cup {Null} : SelectPersona(id)
    \/ HandleCallStart
    \/ OnOpen
    \/ Disconnect
    \/ \E id \in PersonaIds : SaveBegin(id)
    \/ SaveFinish("same", Reply("rejected", <<>>))
    \/ JournalReply(1, Reply("rejected", <<>>))
    \/ Reload

SpecApp == Init /\ [][NextApp]_vars

----------------------------------------------------------------------------
(* Live sessions; the service answers none of the background analyses *)

TimedOut == Reply("rejected", <<>>)

NextLive ==
    \/ \E id \in PersonaIds \cup {Null} : SelectPersona(id)
    \/ HandleCallStart
    \/ OnOpen
    \/ \E f \in {"true", "false"} : HandleInputTranscription(f)
    \/ \E f \in {"true", "false"} : HandleOutputTranscription(f)
    \/ HandleContent
    \/ HandleTurnComplete
    \/ Disconnect
    \/ OnClose
    \/ HandleBack
    \/ \E k \in 1..MaxPending : RapportReply(k, TimedOut)
    \/ \E k \in 1..MaxPending : JournalReply(k, TimedOut)

SpecLive == Init /\ [][NextLive]_vars

----------------------------------------------------------------------------
(* The events of the streaming client, the audio events among them *)

NextSession ==
    \/ \E id \in PersonaIds \cup {Null} : SelectPersona(id)
    \/ HandleCallStart
    \/ OnOpen
    \/ HandleInputTranscription("true")
    \/ OnAudio
    \/ StopAudioStreamer
    \/ Disconnect
    \/ OnClose
    \/ OnCloseSeeingConnected
    \/ HandleBack
    \/ \E k \in 1..MaxPending : JournalReply(k, TimedOut)

SpecSession == Init /\ [][NextSession]_vars

----------------------------------------------------------------------------
(* A live session with one persona, whose speech alone is transcribed, *)
(* while the settings form is in use                                   *)

Caller == "max"

NextSettings ==
    \/ SelectPersona(Caller)
    \/ HandleCallStart
    \/ OnOpen
    \/ \E f \in {"true", "false"} : HandleInputTranscription(f)
    \/ HandleTurnComplete
    \/ \E k \in 1..MaxPending, reply \in RapportReplies : RapportReply(k, reply)
    \/ SaveBegin(Caller)
    \/ \E rel \in Relationships, reply \in RapportReplies : SaveFinish(rel, reply)

SpecSettings == Init /\ [][NextSettings]_vars

----------------------------------------------------------------------------
(* Text conversations with their background analyses *)

ReplyChunks == 1..2

NextText ==
    \/ \E id \in PersonaIds \cup {Null} : SelectPersona(id)
    \/ HandleBack
    \/ HandleSendText
    \/ GenerateFails
    \/ \E n \in ReplyChunks, e \in Reactions \cup {NoReaction} : GenerateReplies(n, e)
    \/ TypeDelay
    \/ TypePause
    \/ \E k \in 1..MaxPending, reply \in RapportReplies : RapportReply(k, reply)
    \/ \E k \in 1..MaxPending, reply \in JournalReplies : JournalReply(k, reply)

SpecText == Init /\ [][NextText]_vars

----------------------------------------------------------------------------
(* Text exchanges while personas are deleted *)

\* the chat list shows the personas that exist
NextDelete ==
    \/ \E id \in DOMAIN personas \cup {Null} : SelectPersona(id)
    \/ HandleBack
    \/ HandleSendText
    \/ GenerateFails
    \/ \E n \in ReplyChunks : GenerateReplies(n, NoReaction)
    \/ TypeDelay
    \/ TypePause
    \/ \E k \in 1..MaxPending, reply \in RapportReplies : RapportReply(k, reply)
    \/ \E k \in 1..MaxPending, reply \in JournalReplies : JournalReply(k, reply)
    \/ \E id \in PersonaIds : DeletePersona(id)

SpecDelete == Init /\ [][NextDelete]_vars

----------------------------------------------------------------------------
(* Claims *)

HistoryOf(p) == personas[p].chatHistory

\* C1 : in every reachable state and for every persona, at most one turn of the
\* chatHistory is non-final, and a non-final turn is the last turn of the history.
C1_OnlyLastTurnNonFinal ==
    \A p \in DOMAIN personas :
        \A i \in 1..Len(HistoryOf(p)) :
            ~HistoryOf(p)[i].isFinal => i = Len(HistoryOf(p))

\* C2 : whenever activePersonaId names an existing persona, the active view is
\* equal, turn for turn, to that persona's chatHistory (checked with the live
\* session, the settings form and page reloads).
C2_ViewEqualsActiveHistory ==
    activePersonaId \in DOMAIN personas => turns = HistoryOf(activePersonaId)

\* The state in which most claims are witnessed is the one a store operation
\* has just left : lastChange names that operation.
JustDid(name) == lastChange.op = name

\* C3 : n >= 1 consecutive appendTurn calls for one persona and one role, each
\* with isFinal false or omitted, that start on a history that is empty, or whose
\* last turn is final or of another role, grow the history by exactly one turn;
\* that turn is the last one and its text is the chunks in call order.
C3_RunIsOneTurn ==
    run.pid # Null =>
        /\ Len(HistoryOf(run.pid)) = run.base + 1
        /\ Last(HistoryOf(run.pid)).role = run.role
        /\ Last(HistoryOf(run.pid)).text = run.chunks

\* a run of two chunks that started after an earlier turn of the history
C3_Witness ==
    /\ run.pid # Null
    /\ run.base = 1
    /\ Len(run.chunks) = 2
    /\ Len(HistoryOf(run.pid)) = 2

\* what C4 says appendTurn(p, r, c, f) does to the history h of p
AppendTurnSays(h, h2, r, c, f) ==
    IF Len(h) > 0 /\ Last(h).role = r /\ ~Last(h).isFinal
    THEN /\ Len(h2) = Len(h)
         /\ \A i \in 1..(Len(h) - 1) : h2[i] = h[i]
         /\ Last(h2).role = r
         /\ Last(h2).text = Last(h).text \o <<c>>
         /\ Last(h2).reaction = Last(h).reaction
         /\ Last(h2).isFinal = (IF f = Omitted THEN Last(h).isFinal ELSE f = "true")
    ELSE /\ Len(h2) = Len(h) + 1
         /\ \A i \in 1..Len(h) : h2[i] = h[i]
         /\ Last(h2) = [role |-> r, text |-> <<c>>, isFinal |-> (f = "true"),
                        reaction |-> NoReaction]

\* C4 : appendTurn(p, r, c, f) on an existing persona extends the last turn when
\* that turn has role r and is not final (the text gets c appended, isFinal
\* becomes f when f is given and stays otherwise), and in every other case pushes
\* the new turn {r, c, f or false}; the turns before are kept.
C4_AppendTurnCases ==
    \A p \in DOMAIN personas, r \in Roles, f \in FinalArgs :
        AppendTurnSays(HistoryOf(p),
                       AppendTurnResult(personas, activePersonaId, turns, p, r,
                                        NextChunk(personas, p), f).personas[p].chatHistory,
                       r, NextChunk(personas, p), f)

\* the scenario of C4 : (user, 'Hi', true), (agent, 'Hel', false),
\* (agent, 'lo!', true) leaves [user 'Hi' final, agent 'Hello!' final]
C4_Witness ==
    /\ JustDid("appendTurn")
    /\ HistoryOf(lastChange.pid) =
           << [role |-> "user", text |-> <<"a">>, isFinal |-> TRUE,
               reaction |-> NoReaction],
              [role |-> "agent", text |-> <<"b", "c">>, isFinal |-> TRUE,
               reaction |-> NoReaction] >>

\* C5 : appendTurn with a personaId that names no persona changes nothing :
\* every chatHistory and unreadCount, activePersonaId and the view stay as
\* they were.
C5_UnknownPersonaIsNoOp ==
    [][\/ /\ personas' = personas
          /\ activePersonaId' = activePersonaId
          /\ turns' = turns
       \/ \A r \in Roles, f \in FinalArgs :
              ~AppendTurn(UnknownId, r, NextChunk(personas, UnknownId), f)]_vars

\* a state with a conversation, a counter and a view to lose, in which the
\* appendTurn for the unknown persona is taken (it leaves the state as it is)
C5_Witness ==
    /\ UnknownId \notin DOMAIN personas
    /\ activePersonaId \in DOMAIN personas
    /\ turns # <<>>
    /\ \E q \in DOMAIN personas : UnreadOrZero(personas[q]) > 0
    /\ \A r \in Roles, f \in FinalArgs :
           AppendTurnResult(personas, activePersonaId, turns, UnknownId, r,
                            NextChunk(personas, UnknownId), f)
               = [personas |-> personas, turns |-> turns]

\* C6 : appendTurn(p, r, ...) on an existing persona adds exactly one to the
\* unreadCount of p when p is not the active persona and r is 'agent'; in every
\* other case, and for every other persona, the unreadCount stays as it was.
C6_UnreadCountOnAppend ==
    \A p \in DOMAIN personas, r \in Roles, f \in FinalArgs :
        LET after == AppendTurnResult(personas, activePersonaId, turns, p, r,
                                      NextChunk(personas, p), f).personas
        IN \A q \in DOMAIN personas :
               IF q = p /\ p # activePersonaId /\ r = "agent"
               THEN after[q].unreadCount = <<UnreadOrZero(personas[q]) + 1>>
               ELSE after[q].unreadCount = personas[q].unreadCount

\* an agent chunk has just raised the counter of a persona that is not active
\* to 2, while another persona is active
C6_Witness ==
    /\ JustDid("appendTurn")
    /\ activePersonaId \in DOMAIN personas
    /\ lastChange.pid # activePersonaId
    /\ Last(HistoryOf(lastChange.pid)).role = "agent"
    /\ personas[lastChange.pid].unreadCount = <<2>>

\* C7 : selectPersona(p) with an existing p sets the unreadCount of p to 0 and
\* leaves the unreadCount of every other persona as it was.
C7_SelectClearsUnread ==
    [][\A id \in PersonaIds :
          SelectPersona(id) =>
              /\ personas'[id].unreadCount = <<0>>
              /\ \A q \in DOMAIN personas \ {id} :
                     personas'[q].unreadCount = personas[q].unreadCount]_vars

\* a persona with unread messages has just been selected, and another persona
\* still has its unread messages
C7_Witness ==
    /\ JustDid("selectPersona")
    /\ lastChange.was = "unread"
    /\ personas[lastChange.pid].unreadCount = <<0>>
    /\ \E q \in DOMAIN personas \ {lastChange.pid} : UnreadOrZero(personas[q]) > 0

\* C8 : after selectPersona changes the active persona, the view equals the
\* newly active persona's chatHistory and holds no turn of the previous one;
\* after selectPersona(null) no persona is active and the view is empty.
C8_ViewFollowsSelection ==
    [][\A id \in PersonaIds \cup {Null} :
          (SelectPersona(id) /\ id # activePersonaId) =>
              turns' = HistoryOrEmpty(personas', id)]_vars

\* C9 : finalizeTurn is idempotent : applied a second time it leaves the
\* histories and the view exactly as the first application left them.
C9_FinalizeTwiceIsOnce ==
    LET once == FinalizeTurnResult(personas, activePersonaId, turns)
        twice == FinalizeTurnResult(once.personas, activePersonaId, once.turns)
    IN twice = once

\* finalizeTurn has just sealed a turn, one more finalizeTurn changes nothing,
\* and an earlier turn of the history is there as well
C9_Witness ==
    /\ JustDid("finalizeTurn")
    /\ activePersonaId \in DOMAIN personas
    /\ Len(turns) = 2
    /\ Last(turns).isFinal
    /\ FinalizeTurnResult(personas, activePersonaId, turns)
           = [personas |-> personas, turns |-> turns]

\* C10 : finalizeTurn changes at most the last turn of the active persona's
\* chatHistory, setting only its isFinal to true, and mirrors that history to
\* the view; with no active persona, an empty history or a last turn that is
\* final already it changes nothing.  No other persona's record and no text,
\* role or reaction changes.
C10_FinalizeFrame ==
    [][FinalizeTurn =>
          /\ activePersonaId' = activePersonaId
          /\ \A q \in DOMAIN personas \ {activePersonaId} : personas'[q] = personas[q]
          /\ IF /\ activePersonaId \in DOMAIN personas
                /\ HistoryOf(activePersonaId) # <<>>
                /\ ~Last(HistoryOf(activePersonaId)).isFinal
             THEN LET h == HistoryOf(activePersonaId)
                      h2 == personas'[activePersonaId].chatHistory
                  IN /\ Len(h2) = Len(h)
                     /\ \A i \in 1..(Len(h) - 1) : h2[i] = h[i]
                     /\ Last(h2).isFinal
                     /\ Last(h2).role = Last(h).role
                     /\ Last(h2).text = Last(h).text
                     /\ Last(h2).reaction = Last(h).reaction
                     /\ personas'[activePersonaId].unreadCount
                            = personas[activePersonaId].unreadCount
                     /\ turns' = h2
             ELSE /\ personas' = personas
                  /\ turns' = turns]_vars

\* finalizeTurn has just sealed a turn that carries a reaction, while the
\* other persona's history ends in a turn that is still open
C10_Witness ==
    /\ JustDid("finalizeTurn")
    /\ activePersonaId \in DOMAIN personas
    /\ Last(turns).isFinal
    /\ Last(turns).reaction # NoReaction
    /\ \E q \in DOMAIN personas \ {activePersonaId} :
           /\ HistoryOf(q) # <<>>
           /\ ~Last(HistoryOf(q)).isFinal

\* the reaction of turn i (0-based) of the active persona after updateTurn(i, r)
\* has been applied n times in a row
RECURSIVE StoreAfterUpdates(_, _, _, _)
StoreAfterUpdates(store, i, r, n) ==
    IF n = 0 THEN store
    ELSE StoreAfterUpdates(
             UpdateTurnResult(store.personas, activePersonaId, store.turns, i, r),
             i, r, n - 1)

ReactionAfterUpdates(i, r, n) ==
    StoreAfterUpdates([personas |-> personas, turns |-> turns], i, r, n)
        .personas[activePersonaId].chatHistory[i + 1].reaction

ViewMatchesAfterUpdates(i, r, n) ==
    LET store == StoreAfterUpdates([personas |-> personas, turns |-> turns], i, r, n)
    IN store.turns = store.personas[activePersonaId].chatHistory

ValidIndices == 0..(Len(HistoryOrEmpty(personas, activePersonaId)) - 1)

\* C11 as stated : for every valid index i of the active persona's history and
\* every reaction r, updateTurn(i, {reaction: r}) applied twice in a row leaves
\* the turn with no reaction; applied once to a turn whose reaction is not r it
\* sets the reaction to r; the history and the view end up equal.
C11_ToggleLawAsStated ==
    \A i \in ValidIndices, r \in Emojis :
        /\ ReactionAfterUpdates(i, r, 2) = NoReaction
        /\ ReactionAfterUpdates(i, r, 0) # r => ReactionAfterUpdates(i, r, 1) = r
        /\ ViewMatchesAfterUpdates(i, r, 1)
        /\ ViewMatchesAfterUpdates(i, r, 2)

\* C11, amended : for every valid index i of the active persona's history and
\* every reaction r, updateTurn(i, {reaction: r}) applied once to a turn whose
\* reaction is not r sets it to r, and applied twice in a row leaves that turn
\* with no reaction; on a turn whose reaction is r already, once removes the
\* reaction and twice puts r back.  The history and the view end up equal.
C11_ToggleLaw ==
    \A i \in ValidIndices, r \in Emojis :
        /\ ReactionAfterUpdates(i, r, 0) # r =>
               /\ ReactionAfterUpdates(i, r, 1) = r
               /\ ReactionAfterUpdates(i, r, 2) = NoReaction
        /\ ReactionAfterUpdates(i, r, 0) = r =>
               /\ ReactionAfterUpdates(i, r, 1) = NoReaction
               /\ ReactionAfterUpdates(i, r, 2) = r
        /\ ViewMatchesAfterUpdates(i, r, 1)
        /\ ViewMatchesAfterUpdates(i, r, 2)

\* updateTurn has just taken the only reaction off a turn of the active
\* persona : the second of two applications in a row
C11_Witness ==
    /\ JustDid("updateTurn")
    /\ activePersonaId \in DOMAIN personas
    /\ turns # <<>>
    /\ TotalReactions(personas) = 0
    /\ turns = HistoryOf(activePersonaId)

\* the turns of every history, without the other fields of the personas
Histories(ps) == [p \in DOMAIN ps |-> ps[p].chatHistory]

\* C12 : updateTurn with an index outside the active persona's history
\* (negative, or at or past its length), or with no active persona, changes no
\* turn of any history : lengths, roles, texts, isFinal and reactions stay.
C12_OutOfRangeUpdateKeepsTurns ==
    \A i \in Indices, r \in Emojis :
        (activePersonaId = Null \/ i \notin ValidIndices) =>
            Histories(UpdateTurnResult(personas, activePersonaId, turns, i, r).personas)
                = Histories(personas)

\* a persona is active, its history has a turn with a reaction and a turn
\* without, and the indices -1 and Len are outside it
C12_Witness ==
    /\ activePersonaId \in DOMAIN personas
    /\ Len(HistoryOf(activePersonaId)) = 2
    /\ HistoryOf(activePersonaId)[1].reaction # NoReaction
    /\ HistoryOf(activePersonaId)[2].reaction = NoReaction
    /\ \A i \in {-1, 2} :
           UpdateTurnResult(personas, activePersonaId, turns, i, "heart").personas
               = personas

\* C13 : the last turn of every exchange that a turncomplete of a live session
\* hands to analyzeRapport is final, finalizeTurn having run before the
\* exchange is gathered
C13_LiveExchangeEndsFinal ==
    \A k \in 1..Len(calls) :
        calls[k].kind = "rapport" /\ calls[k].origin = "live" =>
            Last(calls[k].turns).isFinal

\* C14 : no turn append waits for a background analysis : once the reply of a
\* text exchange is in, its fragments are appended whether or not the
\* analyzeRapport of the exchange has returned
C14_AppendsDoNotAwaitAnalysis ==
    send.chunks # <<>> => send.pc \in {"typing", "pausing"}

\* C15 : a close event that arrives while connected is false dispatches no
\* journal update, leaves the view as it is, and leaves connected false
C15_CloseWhenNotConnected ==
    [][(OnClose /\ ~connected) =>
           /\ calls' = calls
           /\ turns' = turns
           /\ connected' = FALSE]_vars

\* a close event arrived while a session with an owner was still connecting
\* and the view held turns
C15_Witness ==
    /\ ~connected
    /\ clientStatus = "idle"
    /\ activeCallPersonaId # Null
    /\ turns # <<>>

\* a step in which disconnect() runs : handleCallEnd, a close event of a
\* connected session, or handleBack during a session
DisconnectRuns == Disconnect \/ (OnClose /\ connected) \/ (HandleBack /\ connected)

\* C16 : when disconnect() runs for a session with an owner while the view holds
\* turns, the same step dispatches a journal update for the owner with exactly
\* the view's turns and empties the view; no chatHistory changes and connected
\* becomes false
C16_DisconnectJournalsTheView ==
    [][(DisconnectRuns /\ activeCallPersonaId # Null /\ turns # <<>>) =>
           /\ calls' = Append(calls, Call("journal", activeCallPersonaId,
                                          turns, "close"))
           /\ turns' = <<>>
           /\ Histories(personas') = Histories(personas)
           /\ connected' = FALSE]_vars

\* a session with an owner has just ended, its journal update is in flight and
\* the owner's history, which the view showed, is still there
C16_Witness ==
    /\ lastChange.op \in {"disconnect", "close", "back"}
    /\ ~connected
    /\ turns = <<>>
    /\ \E k \in 1..Len(calls) :
           /\ calls[k].kind = "journal"
           /\ calls[k].origin = "close"
           /\ calls[k].turns = HistoryOf(calls[k].pid)
           /\ calls[k].turns # <<>>

\* C17 : leaving a text conversation (no live session) whose view holds turns,
\* by going back or by selecting another persona, dispatches a journal update
\* for the persona that was left, with those turns
C17_NavigatingAwayJournals ==
    [][(/\ activePersonaId \in DOMAIN personas
        /\ ~connected
        /\ turns # <<>>
        /\ activePersonaId' # activePersonaId) =>
           /\ Len(calls') = Len(calls) + 1
           /\ Last(calls').kind = "journal"
           /\ Last(calls').pid = activePersonaId
           /\ Last(calls').turns = turns]_vars

\* min(1000, max(0, v)) written out
Bounded(v) == IF v < 0 THEN 0 ELSE IF v > 1000 THEN 1000 ELSE v

\* C18 : the rapport of every persona is within 0..1000 in every reachable
\* state; a rapport analysis that returns v stores min(1000, max(0, v))
C18_RapportInRange ==
    /\ \A p \in DOMAIN personas : personas[p].rapport \in 0..1000
    /\ \A p \in DOMAIN personas, v \in ReturnedScores :
           PersonasAfterRapport(personas, p, Reply("json", <<v>>))[p].rapport
               = Bounded(v)

\* an analysis returned a score above the range and the top of the range was
\* stored
C18_Witness ==
    /\ lastChange.op = "rapportReply"
    /\ lastChange.was = "json"
    /\ personas[lastChange.pid].rapport = 1000

\* C19 : a rapport analysis whose reply is a failure (the call rejects, the text
\* is not JSON, the JSON holds no number) leaves every persona as it was and
\* raises nothing, so the handleSendText that awaited it goes on to type the
\* reply; with an empty exchange or an unknown persona no call is made
C19_FailedAnalysisKeepsRapport ==
    [][/\ \A k \in 1..Len(calls), reply \in FailureReplies :
              RapportReply(k, reply) =>
                  /\ personas' = personas
                  /\ turns' = turns
                  /\ (send.pc = "analysing" /\ calls[k].origin = "text")
                         => send'.pc = "typing"
       /\ \A p \in AllIds, o \in {"text", "live"} :
              CallsAfterRapport(calls, personas, p, <<>>, o) = calls
       /\ \A o \in {"text", "live"} :
              CallsAfterRapport(calls, personas, UnknownId, turns, o) = calls]_vars

\* the reply to the analysis of a text exchange was not JSON; the rapport is
\* what it was and the reply is being typed
C19_Witness ==
    /\ lastChange.op = "rapportReply"
    /\ lastChange.was = "unparseable"
    /\ personas[lastChange.pid].rapport = InitialRapport[lastChange.pid]
    /\ send.pc = "typing"
    /\ send.pid = lastChange.pid

\* C20 : when the reply to a journal update is a document with metadata, the
\* persona's journal becomes that document with a fresh lastUpdated stamp; when
\* the call rejects or the reply is not such a document, the journal stays as
\* it was and nothing is raised; chatHistory, rapport and unreadCount of every
\* persona are the same after either
C20_JournalReplaced ==
    [][\A k \in 1..Len(calls), reply \in JournalReplies :
           JournalReply(k, reply) =>
               /\ personas'[calls[k].pid].journalData =
                      IF reply \in FailureReplies
                      THEN personas[calls[k].pid].journalData
                      ELSE [doc |-> reply.value[1].doc, lastUpdated |-> Now]
               /\ \A q \in DOMAIN personas :
                      /\ personas'[q].chatHistory = personas[q].chatHistory
                      /\ personas'[q].rapport = personas[q].rapport
                      /\ personas'[q].unreadCount = personas[q].unreadCount
                      /\ q # calls[k].pid =>
                             personas'[q].journalData = personas[q].journalData
               /\ turns' = turns]_vars

\* the journal of a persona with a conversation behind it was replaced by the
\* returned document, stamped at the time of the reply
C20_Witness ==
    /\ lastChange.op = "journalReply"
    /\ lastChange.was = "json"
    /\ personas[lastChange.pid].journalData = [doc |-> "profile", lastUpdated |-> Now]
    /\ personas[lastChange.pid].chatHistory # <<>>

\* the apology turn of handleSendText's catch block
ApologyTurn(p) ==
    [role |-> "system", text |-> <<NextChunk(personas, p)>>, isFinal |-> TRUE,
     reaction |-> NoReaction]

\* C21 : when the chat-reply request of a text exchange rejects, exactly one
\* final system turn is appended to the history of the persona the message was
\* sent to, behind the user's turn and with no agent turn, no other history
\* changes, and the input of the chat on screen accepts the next submission
C21_FailedReplyIsOneSystemTurn ==
    [][GenerateFails =>
           /\ personas'[send.pid].chatHistory =
                  Append(personas[send.pid].chatHistory, ApologyTurn(send.pid))
           /\ \A q \in DOMAIN personas \ {send.pid} :
                  personas'[q].chatHistory = personas[q].chatHistory
           /\ send' = NoSend
           /\ activePersonaId' \in DOMAIN personas => sendState' = "idle"]_vars

\* the operations that run appendTurn, finalizeTurn or updateTurn
EngineOps ==
    {"appendTurn", "finalizeTurn", "updateTurn", "turncomplete", "sendText",
     "generateFails", "generateReplies", "typeChunk"}

\* C22 : a chatHistory is written by appendTurn, finalizeTurn and updateTurn
\* only : the completion of an analysis, selectPersona, connect and disconnect,
\* and the saving of the settings form, also after turns were appended while
\* the save awaited the service, leave every chatHistory as it was
C22_OnlyTheEngineWritesHistory ==
    [][Histories(personas') # Histories(personas) =>
           lastChange'.op \in EngineOps]_vars

\* a step of the reveal loop in which a fragment is appended
FragmentAppended ==
    /\ TypeDelay \/ TypePause
    /\ send'.chunks # send.chunks

\* a fragment as the turn appendTurn(currentPersonaId, 'agent', chunk, true)
\* makes of it
FragmentTurn(chunk) ==
    [role |-> "agent", text |-> <<chunk>>, isFinal |-> TRUE,
     reaction |-> NoReaction]

\* C23 : the fragments f1..fn of a reply are appended one per step, in the
\* order f1..fn, to the history of the persona the message was sent to; when
\* another persona or none is active by then, the fragment still goes to that
\* history, and neither the history of another persona nor the view changes
C23_FragmentsInOrderToTheirPersona ==
    [][FragmentAppended =>
           /\ personas'[send.pid].chatHistory =
                  Append(personas[send.pid].chatHistory,
                         FragmentTurn(Head(send.chunks)))
           /\ send'.chunks = Tail(send.chunks)
           /\ \A q \in DOMAIN personas \ {send.pid} :
                  personas'[q].chatHistory = personas[q].chatHistory
           /\ activePersonaId # send.pid => turns' = turns]_vars

\* both fragments of a reply are in the history of the persona the message was
\* sent to, in their order, and the second arrived while another persona was on
\* screen
C23_Witness ==
    /\ lastChange.op = "typeChunk"
    /\ activePersonaId \in DOMAIN personas
    /\ activePersonaId # lastChange.pid
    /\ LET h == HistoryOf(lastChange.pid)
       IN /\ Len(h) = 3
          /\ h[2] = FragmentTurn("b")
          /\ h[3] = FragmentTurn("c")
    /\ send = NoSend

\* ---------------------------------------------------------------------------
\* splitMessage (StreamingConsole.tsx 81-145)
\*
\* A string is a sequence of characters, a character a one-token string.
\* JavaScript indexes strings from 0; Sequences index from 1, so the
\* character at index i is s[i + 1].
\* ---------------------------------------------------------------------------

MIN_CHUNK == 20
MAX_CHUNK == 140
IDEAL_CHUNK == 80

\* the number of runs of equal characters an input text is made of
MaxRuns == 3

\* the lengths of a run: they put a cut before and after MIN_CHUNK and
\* IDEAL_CHUNK, and at, before and after MAX_CHUNK
RunLengths == {1, 20, 60, 120}

\* a letter, a space, a sentence terminator and a comma
Alphabet == {"x", " ", ".", ","}

\* the characters String.prototype.trim removes
Whitespace == {" ", "\n", "\t"}

Repeat(c, n) == [i \in 1..n |-> c]

RECURSIVE TextOfRuns(_)
TextOfRuns(runs) ==
    IF runs = <<>> THEN <<>>
    ELSE Repeat(runs[1].c, runs[1].n) \o TextOfRuns(Tail(runs))

RunSeqs ==
    UNION {[1..k -> [c : Alphabet, n : RunLengths]] : k \in 1..MaxRuns}

\* the texts splitMessage is called with, the empty string among them
Texts == {<<>>} \cup {TextOfRuns(runs) : runs \in RunSeqs}

Least(S) == CHOOSE x \in S : \A y \in S : x <= y

Greatest(S) == 0 - Least({0 - x : x \in S})

Clamp(i, len) == IF i < 0 THEN 0 ELSE IF i > len THEN len ELSE i

\* String.prototype.substring(start, end): both clamped to the string, and
\* swapped when start is the greater
Substring(s, start, end) ==
    LET a == Clamp(start, Len(s))
        b == Clamp(end, Len(s))
    IN IF a <= b THEN SubSeq(s, a + 1, b) ELSE SubSeq(s, b + 1, a)

\* String.prototype.trim
Trim(s) ==
    LET kept == {i \in 1..Len(s) : s[i] \notin Whitespace}
    IN IF kept = {} THEN <<>> ELSE SubSeq(s, Least(kept), Greatest(kept))

\* needle occurs in s at index pos
OccursAt(s, needle, pos) ==
    /\ pos >= 0
    /\ pos + Len(needle) <= Len(s)
    /\ \A k \in 1..Len(needle) : s[pos + k] = needle[k]

\* String.prototype.lastIndexOf(needle, position): the greatest index not
\* after position at which needle occurs, -1 when there is none
LastIndexOf(s, needle, position) ==
    LET hits == {p \in 0..Clamp(position, Len(s)) : OccursAt(s, needle, p)}
    IN IF hits = {} THEN -1 ELSE Greatest(hits)

\* String.prototype.indexOf(needle, position): the least index not before
\* position at which needle occurs, -1 when there is none
IndexOf(s, needle, position) ==
    LET hits == {p \in Clamp(position, Len(s))..Len(s) : OccursAt(s, needle, p)}
    IN IF hits = {} THEN -1 ELSE Least(hits)

\* line 99; the ellipsis and the dash are one character each
sentenceEndChars ==
    << <<".">>, <<"!">>, <<"?">>, <<"ellipsis">>, <<"dash">>, <<".", ".", ".">> >>

\* a faulty test: a search that found nothing (-1) passes as a cut
IsCutAnywhere(pos) == pos >= -1

\* lines 104, 117, 126: a position is taken as a cut only beyond MIN_CHUNK
IsCut(pos) == pos > MIN_CHUNK

\* lines 96-107: the last sentence end within the slice point, -1 when none
SplitAt(remainingText) ==
    LET slicePoint == IF Len(remainingText) < MAX_CHUNK
                      THEN Len(remainingText) ELSE MAX_CHUNK
        found == {LastIndexOf(remainingText, sentenceEndChars[k], slicePoint) :
                      k \in 1..Len(sentenceEndChars)}
        cuts == {pos \in found : IsCut(pos)}
    IN IF cuts = {} THEN -1 ELSE Greatest(cuts)

\* a faulty remainder: it starts one character after the cut
RestSkipping(remainingText, from) ==
    Trim(Substring(remainingText, from + 1, Len(remainingText)))

\* lines 112, 120, 129, 137: what is left after a cut
Rest(remainingText, from) ==
    Trim(Substring(remainingText, from, Len(remainingText)))

Piece(remainingText, end, from, cut) ==
    [chunk |-> Trim(Substring(remainingText, 0, end)),
     rest |-> Rest(remainingText, from),
     cut |-> cut]

\* lines 92-142: one iteration of the loop on a non-empty remaining text
Iteration(remainingText) ==
    LET splitAt == SplitAt(remainingText)
        comma == LastIndexOf(remainingText, <<",">>, MAX_CHUNK)
        space == LastIndexOf(remainingText, <<" ">>, IDEAL_CHUNK)
        nextSpace == IndexOf(remainingText, <<" ">>, IDEAL_CHUNK)
    IN IF Len(remainingText) < MAX_CHUNK
       THEN [chunk |-> remainingText, rest |-> remainingText, cut |-> "last"]
       ELSE IF splitAt # -1
       THEN Piece(remainingText, splitAt + 1, splitAt + 1, "sentence")
       ELSE IF IsCut(comma)
       THEN Piece(remainingText, comma + 1, comma + 1, "comma")
       ELSE IF IsCut(space)
       THEN Piece(remainingText, space, space, "space")
       ELSE IF nextSpace # -1
       THEN Piece(remainingText, nextSpace, nextSpace, "nextSpace")
       ELSE [chunk |-> remainingText, rest |-> <<>>, cut |-> "rest"]

\* line 144
NonEmpty(bubbles) == SelectSeq(bubbles, LAMBDA b : Len(b) > 0)

\* lines 86-90: a text below MAX_CHUNK is returned as the only fragment;
\* any other text is trimmed and enters the loop
SplitStart ==
    /\ split.pc = "start"
    /\ split' = IF Len(split.text) < MAX_CHUNK
                THEN [split EXCEPT !.pc = "done", !.bubbles = <<split.text>>,
                                   !.cut = "short"]
                ELSE IF Trim(split.text) = <<>>
                THEN [split EXCEPT !.pc = "done", !.bubbles = NonEmpty(<<>>)]
                ELSE [split EXCEPT !.pc = "loop",
                                   !.remainingText = Trim(split.text)]
    /\ UNCHANGED <<storeVars, liveVars, textVars, saving, calls, playing,
                   replaced, lastChange, run>>

\* lines 92-144: one iteration; the iteration that breaks or leaves nothing
\* also returns the non-empty fragments
SplitIterate ==
    /\ split.pc = "loop"
    /\ LET it == Iteration(split.remainingText)
           bubbles == Append(split.bubbles, it.chunk)
           ends == it.cut = "last" \/ it.rest = <<>>
       IN split' = [split EXCEPT !.pc = IF ends THEN "done" ELSE "loop",
                                 !.remainingText = it.rest,
                                 !.bubbles = IF ends THEN NonEmpty(bubbles)
                                             ELSE bubbles,
                                 !.cut = it.cut]
    /\ UNCHANGED <<storeVars, liveVars, textVars, saving, calls, playing,
                   replaced, lastChange, run>>

\* splitMessage is called with any of the texts
InitSplit ==
    /\ Constructed
    /\ split \in {[NoSplit EXCEPT !.pc = "start", !.text = text] : text \in Texts}

NextSplit == SplitStart \/ SplitIterate

SpecSplit == InitSplit /\ [][NextSplit]_vars

\* ---------------------------------------------------------------------------
\* C24..C27: splitMessage
\* ---------------------------------------------------------------------------

\* C24: a text shorter than MAX_CHUNK comes back as exactly one fragment, the
\* text with its leading and trailing whitespace removed.
C24_ShortTextIsOneTrimmedFragment ==
    (split.pc = "done" /\ Len(split.text) < MAX_CHUNK)
        => split.bubbles = <<Trim(split.text)>>

RECURSIVE JoinedBySpaces(_)
JoinedBySpaces(bubbles) ==
    IF bubbles = <<>> THEN <<>>
    ELSE IF Len(bubbles) = 1 THEN bubbles[1]
    ELSE bubbles[1] \o <<" ">> \o JoinedBySpaces(Tail(bubbles))

NonWhitespace(s) == SelectSeq(s, LAMBDA c : c \notin Whitespace)

\* C25: the fragments of a text, joined by single spaces, hold exactly the
\* non-whitespace characters of the text, in the same order.
C25_SplitLosesOnlyWhitespace ==
    split.pc = "done"
        => NonWhitespace(JoinedBySpaces(split.bubbles)) = NonWhitespace(split.text)

\* a text cut in two at a run of spaces, which the fragments do not keep
C25_Witness ==
    /\ split.pc = "done"
    /\ Len(split.bubbles) >= 2
    /\ Len(JoinedBySpaces(split.bubbles)) < Len(split.text)
    /\ NonWhitespace(split.text) # <<>>

CutKinds == {"sentence", "comma", "space", "nextSpace"}

\* C26: a fragment cut off the front of a remaining text of MAX_CHUNK
\* characters or more, at a sentence end, a comma or a space, has more than
\* MIN_CHUNK and at most MAX_CHUNK characters.
C26_PeeledFragmentWithinBounds ==
    [][(SplitIterate /\ Len(split.remainingText) >= MAX_CHUNK
                     /\ split'.cut \in CutKinds)
           => LET chunk == Iteration(split.remainingText).chunk
              IN Len(chunk) > MIN_CHUNK /\ Len(chunk) <= MAX_CHUNK]_vars

\* C27: every iteration of the loop either ends it or leaves a remaining
\* text at least one character shorter, so that the length of the remaining
\* text bounds the number of iterations and the call returns.
C27_SplitMessageTerminates ==
    [][SplitIterate => \/ split'.pc = "done"
                       \/ Len(split'.remainingText) < Len(split.remainingText)]_vars

\* a text of MAX_CHUNK characters or more without a sentence end, a comma or
\* a space has been returned
C27_Witness ==
    /\ split.pc = "done"
    /\ split.cut = "rest"
    /\ Len(split.text) >= MAX_CHUNK
    /\ \A i \in 1..Len(split.text) : split.text[i] = "x"
    /\ split.bubbles = <<split.text>>

\* ---------------------------------------------------------------------------
\* C28..C30: the streaming session and the turns behind the last one
\* ---------------------------------------------------------------------------

\* C28: connected becomes true only on an open event of a connecting client
\* and an open event marks the session connected; connected becomes false
\* only on a close event or a disconnect; an interrupted or audio event
\* leaves the connection state, the session owner, every chatHistory and the
\* view unchanged.
C28_SessionLifecycle ==
    [][/\ (~connected /\ connected') => (OnOpen /\ clientStatus = "connecting")
       /\ OnOpen => connected'
       /\ (connected /\ ~connected') => (OnClose \/ Disconnect \/ HandleBack)
       /\ (OnAudio \/ StopAudioStreamer)
              => /\ UNCHANGED <<liveVars, turns>>
                 /\ Histories(personas') = Histories(personas)]_vars

\* an audio frame is playing in a connected session that holds turns
C28_Witness ==
    /\ connected
    /\ playing
    /\ clientStatus = "open"
    /\ activeCallPersonaId \in DOMAIN personas
    /\ turns # <<>>

\* C29: the client never holds two sessions: connect() ends the client's
\* prior session before it opens the new one, and after connect() the owner
\* of the session is the persona that was active when connect() was called.
C29_OneSessionOwnedByTheActivePersona ==
    /\ [](clientStatus \in {"idle", "connecting", "open"})
    /\ [][HandleCallStart => /\ clientStatus' = "connecting"
                             /\ activeCallPersonaId' = activePersonaId
                             /\ activeCallPersonaId' \in DOMAIN personas]_vars

\* connect() was called while an earlier session was still connecting, and
\* the new session is owned by the active persona
C29_Witness ==
    /\ replaced = "connecting"
    /\ clientStatus = "connecting"
    /\ isConnecting
    /\ activeCallPersonaId = "chloe"
    /\ activePersonaId = "chloe"

\* C30 as stated: a turn that is no longer the last turn of its persona's
\* history is not changed by any later operation, its reaction included.
C30_SupersededTurnsAreImmutable ==
    [][\A p \in DOMAIN personas :
           \A i \in 1..(Len(personas[p].chatHistory) - 1) :
               /\ p \in DOMAIN personas'
               /\ Len(personas'[p].chatHistory) >= i
               /\ personas'[p].chatHistory[i] = personas[p].chatHistory[i]]_vars

\* C30: a turn that is no longer the last turn of its persona's history
\* keeps its role, its text and its isFinal under every later operation;
\* its reaction is changed by updateTurn on the active persona and by
\* nothing else.
C30_SupersededTurnsKeepTheirContent ==
    [][\A p \in DOMAIN personas :
           \A i \in 1..(Len(personas[p].chatHistory) - 1) :
               /\ p \in DOMAIN personas'
               /\ Len(personas'[p].chatHistory) >= i
               /\ LET old == personas[p].chatHistory[i]
                      new == personas'[p].chatHistory[i]
                  IN /\ new.role = old.role
                     /\ new.text = old.text
                     /\ new.isFinal = old.isFinal
                     /\ new.reaction # old.reaction
                            => /\ lastChange'.op = "updateTurn"
                               /\ p = activePersonaId]_vars

\* updateTurn has set the reaction of a turn that was not the last one
C30_Witness ==
    /\ lastChange.op = "updateTurn"
    /\ \E p \in DOMAIN personas :
           /\ Len(personas[p].chatHistory) = 2
           /\ personas[p].chatHistory[1].reaction = "heart"
           /\ personas[p].chatHistory[2].reaction = NoReaction
           /\ ~personas[p].chatHistory[1].isFinal

\* ---------------------------------------------------------------------------
\* C31..C40
\* ---------------------------------------------------------------------------

IsPrefix(s, t) == Len(s) <= Len(t) /\ SubSeq(t, 1, Len(s)) = s

\* C31: under appendTurn, finalizeTurn and updateTurn a turn keeps its role;
\* a sealed turn stays sealed and keeps its text; the text of a turn that is
\* not sealed changes only by chunks added at its end.
C31_SealingIsPermanent ==
    [][\A p \in DOMAIN personas :
           \A i \in 1..Len(personas[p].chatHistory) :
               /\ p \in DOMAIN personas'
               /\ Len(personas'[p].chatHistory) >= i
               /\ LET old == personas[p].chatHistory[i]
                      new == personas'[p].chatHistory[i]
                  IN /\ new.role = old.role
                     /\ old.isFinal => (new.isFinal /\ new.text = old.text)
                     /\ IsPrefix(old.text, new.text)]_vars

\* a chunk of the role of a sealed last turn went into a new turn, which
\* then grew by a second chunk
C31_Witness ==
    /\ lastChange.op = "appendTurn"
    /\ \E p \in DOMAIN personas :
           LET h == personas[p].chatHistory
           IN /\ Len(h) = 2
              /\ h[1].isFinal
              /\ h[1].role = h[2].role
              /\ Len(h[1].text) = 1
              /\ Len(h[2].text) = 2

FinalUserTurns(h) == {i \in 1..Len(h) : h[i].role = "user" /\ h[i].isFinal}

SuffixFromLastFinalUserTurn(h) ==
    LET i == CHOOSE k \in FinalUserTurns(h) : \A j \in FinalUserTurns(h) : j <= k
    IN [n \in 1..(Len(h) - i + 1) |-> h[i + n - 1]]

C33_ReactionGoesToItsUserTurn ==
    [][\A n \in ReplyChunks, e \in Reactions :
           GenerateReplies(n, e)
               => \A p \in DOMAIN personas :
                      \A i \in 1..Len(personas[p].chatHistory) :
                          personas'[p].chatHistory[i].reaction =
                              IF p = send.pid /\ i = send.userTurnIndex + 1
                              THEN e
                              ELSE personas[p].chatHistory[i].reaction]_vars

\* C34: while a text exchange is in flight, from the accepted submission to
\* its last fragment or its error turn, the send state is not idle, which is
\* what makes handleSendText reject a second submission.
C34_OneExchangeInFlight ==
    send.pc # "idle" => sendState # "idle"

\* C35: a submission returns the send state to idle. The send state is set
\* by handleSendText alone, so the state a run leaves behind at its end is
\* the state the input stays in: when no run is in flight the send state is
\* idle.
C35_SendStateReturnsToIdle ==
    send.pc = "idle" => sendState = "idle"

LiveEvent ==
    \/ \E f \in {"true", "false"} : HandleInputTranscription(f)
    \/ \E f \in {"true", "false"} : HandleOutputTranscription(f)
    \/ HandleContent

\* C36: a turn that comes from an inputTranscription, outputTranscription or
\* content event of a live session goes to the history of the persona
\* connect() was called for, and to the history of no other persona.
C36_LiveTurnsGoToTheSessionOwner ==
    [][LiveEvent
           => \A p \in DOMAIN personas :
                  p # activeCallPersonaId
                      => personas'[p].chatHistory = personas[p].chatHistory]_vars

\* C37: the turns that go to a journal update at the end of a live session
\* are turns of the history of the persona the update is for.
C37_JournalTurnsAreTheOwners ==
    [][(Len(calls') = Len(calls) + 1 /\ Last(calls').kind = "journal"
                                     /\ Last(calls').origin = "close")
           => LET call == Last(calls')
                  h == HistoryOrEmpty(personas', call.pid)
              IN \A i \in 1..Len(call.turns) :
                     \E j \in 1..Len(h) : h[j] = call.turns[i]]_vars

\* a journal update is dispatched for the end of a live session
SessionJournalDispatched ==
    /\ Len(calls') = Len(calls) + 1
    /\ Last(calls').kind = "journal"
    /\ Last(calls').origin = "close"

\* C38: the journal update of a live session is dispatched at most once:
\* the step that dispatches it finds the session's owner and leaves none,
\* with the view emptied, and only connect() names an owner again.
C38_SessionJournalAtMostOnce ==
    [][/\ SessionJournalDispatched
              => /\ activeCallPersonaId # Null
                 /\ Last(calls').pid = activeCallPersonaId
                 /\ activeCallPersonaId' = Null
                 /\ turns' = <<>>
       /\ (activeCallPersonaId' # Null /\ activeCallPersonaId' # activeCallPersonaId)
              => HandleCallStart]_vars

\* the journal of a session is in flight after a hang-up, which left the
\* session without an owner and the view empty
C38_Witness ==
    /\ \E k \in 1..Len(calls) : calls[k].kind = "journal" /\ calls[k].origin = "close"
    /\ lastChange.op = "disconnect"
    /\ activeCallPersonaId = Null
    /\ ~connected
    /\ clientStatus = "idle"
    /\ turns = <<>>

\* C39: deletePersona(p) removes p with its history; it sets activePersonaId
\* to null and empties the view if p was active and leaves both otherwise,
\* so that activePersonaId never names a deleted persona. No step brings a
\* deleted persona back: a later appendTurn(p, ...) of a reveal or of the
\* catch block, and a later reply to a rapport or journal analysis for p,
\* leave the store as it is.
C39_DeletedPersonaStaysDeleted ==
    /\ [](activePersonaId # Null => activePersonaId \in DOMAIN personas)
    /\ [][/\ DOMAIN personas' \subseteq DOMAIN personas
          /\ \A id \in PersonaIds :
                 DeletePersona(id)
                     => /\ DOMAIN personas' = DOMAIN personas \ {id}
                        /\ \A p \in DOMAIN personas' : personas'[p] = personas[p]
                        /\ IF activePersonaId = id
                           THEN activePersonaId' = Null /\ turns' = <<>>
                           ELSE UNCHANGED <<activePersonaId, turns>>
          /\ ((TypeDelay \/ TypePause \/ GenerateFails)
                  /\ send.pid \notin DOMAIN personas)
                 => UNCHANGED storeVars
          /\ \A k \in 1..Len(calls), reply \in RapportReplies :
                 (RapportReply(k, reply) /\ calls[k].pid \notin DOMAIN personas)
                     => UNCHANGED storeVars
          /\ \A k \in 1..Len(calls), reply \in JournalReplies :
                 (JournalReply(k, reply) /\ calls[k].pid \notin DOMAIN personas)
                     => UNCHANGED storeVars]_vars

\* the last fragment of a reply was appended for a persona that had been
\* deleted while it was the active one
C39_Witness ==
    /\ lastChange.op = "typeChunk"
    /\ lastChange.pid \in PersonaIds \ DOMAIN personas
    /\ activePersonaId = Null
    /\ turns = <<>>
    /\ send = NoSend

\* C40: appendTurn(p, ...) leaves every other persona as it is, and
\* activePersonaId; it leaves the rapport and the journal of p as they are;
\* and when p is not the active persona it leaves the view as it is.
\* (A call that leaves the store as it was satisfies this trivially; one that
\* changes it is recorded in lastChange.)
C40_AppendTurnTouchesOnlyItsPersona ==
    [][\A p \in AllIds, r \in Roles, f \in FinalArgs :
           (/\ storeVars' # storeVars
            /\ lastChange' = Op("appendTurn", p, "none")
            /\ AppendTurn(p, r, NextChunk(personas, p), f))
               => /\ DOMAIN personas' = DOMAIN personas
                  /\ \A q \in DOMAIN personas : q # p => personas'[q] = personas[q]
                  /\ activePersonaId' = activePersonaId
                  /\ p \in DOMAIN personas
                         => /\ personas'[p].rapport = personas[p].rapport
                            /\ personas'[p].journalData = personas[p].journalData
                  /\ p # activePersonaId => turns' = turns]_vars

\* an agent chunk went to a persona that is not the active one, while the
\* view shows the turns of the active persona, which has unread chunks too
C40_Witness ==
    /\ lastChange.op = "appendTurn"
    /\ lastChange.pid \in DOMAIN personas
    /\ activePersonaId \in DOMAIN personas
    /\ lastChange.pid # activePersonaId
    /\ UnreadOrZero(personas[lastChange.pid]) = 1
    /\ UnreadOrZero(personas[activePersonaId]) = 0
    /\ turns # <<>>
    /\ turns = personas[activePersonaId].chatHistory

====
